---- MODULE Spec2Model ----
(***************************************************************************)
(* Mastermind: the feedback oracle (validate.py), the two guess generators *)
(* (generate.py) and the solving loop (mastermind.py).                     *)
(*                                                                         *)
(* A Python sequence is a record [kind, elems]: kind tells a list from a   *)
(* tuple (Python's == never equates a list with a tuple), elems is the     *)
(* TLA+ sequence of its elements.  Positions are 1-based here, 0-based in  *)
(* the source.  Symbols are integers, so that sorted() is defined.         *)
(***************************************************************************)
EXTENDS Integers, Sequences, FiniteSets, TLC

VARIABLES
    options,            \* guesser.options: the alphabet, a list of symbols
    length,             \* guesser.length
    duplicates,         \* guesser.duplicates
    strategy,           \* class of the guesser
    solution,           \* mm._solution
    clues,              \* guesser.clues: list of (guess, result)
    all_valid_choices,  \* InMemoryPruner.all_valid_choices
    max_tries,          \* generate_random_valid_guess: max_tries
    tries,              \* generate_random_valid_guess: count
    guess_valid,        \* generate_random_valid_guess: guess_valid
    ret,                \* generate_random_valid_guess: returned (guess, count)
    guess,              \* iteratively_solve: guess
    result,             \* iteratively_solve: result
    count,              \* iteratively_solve: count
    pc,                 \* position in the running function
    drawn,              \* history: number of generate_combination calls of this call
    first_valid         \* history: (draw number, draw) of the first consistent draw

vars == <<options, length, duplicates, strategy, solution, clues,
          all_valid_choices, max_tries, tries, guess_valid,
          ret, guess, result, count, pc, drawn, first_valid>>

-----------------------------------------------------------------------------
(* Bounds of the model *)

NumSymbols == 2
MaxLength == 2
MaxDraws == 2
MaxTries == 1

Symbols == 1..NumSymbols

-----------------------------------------------------------------------------
(* Python values *)

\* None where a sequence is expected
None == [kind |-> "NoneType", elems |-> <<>>]

\* an Optional[int]: <<>> is None, <<n>> is the integer n
NoneInt == <<>>
Int1(n) == <<n>>

INCORRECT == "INCORRECT"
ONLY_COLOR_CORRECT == "ONLY_COLOR_CORRECT"
ONLY_POSITION_CORRECT == "ONLY_POSITION_CORRECT"
EXACT_MATCH == "EXACT_MATCH"

GuessResult == {INCORRECT, ONLY_COLOR_CORRECT, ONLY_POSITION_CORRECT, EXACT_MATCH}

PyList(s) == [kind |-> "list", elems |-> s]
PyTuple(s) == [kind |-> "tuple", elems |-> s]

\* Python's == on two sequences: same type and same elements
PyEq(a, b) == a.kind = b.kind /\ a.elems = b.elems

\* [x] * n
Repeat(x, n) == [i \in 1..n |-> x]

\* del s[pos]
Del(s, pos) == [i \in 1..(Len(s) - 1) |-> IF i < pos THEN s[i] ELSE s[i + 1]]

SetMax(S) == CHOOSE x \in S : \A y \in S : y <= x

-----------------------------------------------------------------------------
(* validate.py *)

\* Mutant of identify_exact_matches: a position matches when its guessed
\* value occurs anywhere in the solution
identify_exact_matches_any_position(sol, gs) ==
    {idx \in DOMAIN gs : \E j \in DOMAIN sol : sol[j] = gs[idx]}

\* the positions where solution and guess hold the same value
identify_exact_matches(sol, gs) ==
    LET solution_set == {<<idx, sol[idx]>> : idx \in DOMAIN sol}
        guess_set == {<<idx, gs[idx]>> : idx \in DOMAIN gs}
        exact_matches == solution_set \cap guess_set
    IN  {p[1] : p \in exact_matches}

\* the distinct values present in both sequences
identify_colour_matches(sol, gs) ==
    LET solution_set == {sol[i] : i \in DOMAIN sol}
        guess_set == {gs[i] : i \in DOMAIN gs}
    IN  solution_set \cap guess_set

\* Mutant of DelReversed: the positions are deleted in ascending order, so
\* every deletion after the first hits a shifted element
SetMin(S) == CHOOSE x \in S : \A y \in S : x <= y

RECURSIVE DelForward(_, _)
DelForward(s, idxs) ==
    IF idxs = {} THEN s
    ELSE LET pos == SetMin(idxs) IN DelForward(Del(s, pos), idxs \ {pos})

\* Mutant of DelReversed: the exact matches are not removed
DelNothing(s, idxs) == s

\* for pos in reversed(match_idxs): del remaining[pos]
RECURSIVE DelReversed(_, _)
DelReversed(s, idxs) ==
    IF idxs = {} THEN s
    ELSE LET pos == SetMax(idxs) IN DelReversed(Del(s, pos), idxs \ {pos})

\* Mutant of validate_solution: the exact matches are deleted from the
\* solution only, not from the guess
validate_solution_keeps_guess(sol, gs) ==
    IF PyEq(sol, gs) THEN PyList(Repeat(EXACT_MATCH, Len(gs.elems)))
    ELSE LET match_idxs == identify_exact_matches(sol.elems, gs.elems)
             remaining_solution == DelReversed(sol.elems, match_idxs)
             match_cols == identify_colour_matches(remaining_solution, gs.elems)
         IN  PyList(Repeat(EXACT_MATCH, Cardinality(match_idxs))
                        \o Repeat(ONLY_COLOR_CORRECT, Cardinality(match_cols)))

\* Mutant of validate_solution: the exact matches are deleted from the
\* guess only, not from the solution
validate_solution_keeps_solution(sol, gs) ==
    IF PyEq(sol, gs) THEN PyList(Repeat(EXACT_MATCH, Len(gs.elems)))
    ELSE LET match_idxs == identify_exact_matches(sol.elems, gs.elems)
             remaining_guess == DelReversed(gs.elems, match_idxs)
             match_cols == identify_colour_matches(sol.elems, remaining_guess)
         IN  PyList(Repeat(EXACT_MATCH, Cardinality(match_idxs))
                        \o Repeat(ONLY_COLOR_CORRECT, Cardinality(match_cols)))

validate_solution(sol, gs) ==
    IF PyEq(sol, gs) THEN PyList(Repeat(EXACT_MATCH, Len(gs.elems)))
    ELSE LET match_idxs == identify_exact_matches(sol.elems, gs.elems)
             remaining_solution == DelReversed(sol.elems, match_idxs)
             remaining_guess == DelReversed(gs.elems, match_idxs)
             match_cols == identify_colour_matches(remaining_solution, remaining_guess)
         IN  PyList(Repeat(EXACT_MATCH, Cardinality(match_idxs))
                        \o Repeat(ONLY_COLOR_CORRECT, Cardinality(match_cols)))

\* Mutant of validate_solution_arguments: remaining_solution and
\* remaining_guess are the arguments themselves, not copies
validate_solution_arguments_aliased(sol, gs) ==
    IF PyEq(sol, gs) THEN <<sol, gs>>
    ELSE LET match_idxs == identify_exact_matches(sol.elems, gs.elems)
         IN  <<[sol EXCEPT !.elems = DelReversed(sol.elems, match_idxs)],
               [gs EXCEPT !.elems = DelReversed(gs.elems, match_idxs)]>>

\* the caller's solution and guess once validate_solution has returned:
\* remaining_solution = list(solution) and remaining_guess = list(guess) are
\* new lists, and the deletions are made in them
validate_solution_arguments(sol, gs) == <<sol, gs>>

valid_possibility(prev_guess, prev_result, next_guess) ==
    LET cmp_result == validate_solution(prev_guess, next_guess)
    IN  prev_result.elems = cmp_result.elems   \* list(prev_result) == list(cmp_result)

-----------------------------------------------------------------------------
(* generate.py: the combination sampler *)

\* itertools.permutations(pool, r): the values at r distinct positions of pool
permutations(pool, r) ==
    {[i \in 1..r |-> pool[f[i]]] :
        f \in {h \in [1..r -> 1..Len(pool)] : \A i, j \in 1..r : i # j => h[i] # h[j]}}

\* options * n
RECURSIVE ListTimes(_, _)
ListTimes(s, n) == IF n <= 0 THEN <<>> ELSE s \o ListTimes(s, n - 1)

\* Mutant of all_choices: the duplicates branch is left out, the options are
\* never repeated
all_choices_no_repeat(opts, len, dups) ==
    {PyTuple(t) : t \in permutations(opts, len)}

all_choices(opts, len, dups) ==
    LET all_options == IF dups THEN ListTimes(opts, len) ELSE opts
    IN  {PyTuple(t) : t \in permutations(all_options, len)}

\* Python's < on two tuples: lexicographic
RECURSIVE LexLess(_, _)
LexLess(a, b) ==
    IF a = <<>> THEN b # <<>>
    ELSE IF b = <<>> THEN FALSE
    ELSE IF Head(a) # Head(b) THEN Head(a) < Head(b)
    ELSE LexLess(Tail(a), Tail(b))

\* sorted(list(S)) for a set S of tuples
RECURSIVE sorted(_)
sorted(S) ==
    IF S = {} THEN <<>>
    ELSE LET m == CHOOSE x \in S : \A y \in S \ {x} : LexLess(x.elems, y.elems)
         IN  <<m>> \o sorted(S \ {m})

\* generate_combination raises instead of drawing
generate_combination_raises(opts, len, dups) == ~dups /\ Len(opts) < len

\* every combination the draws of generate_combination can build: each step
\* picks choice_idx in the local copy of options, and deletes it if ~dups
RECURSIVE Combinations(_, _, _)
Combinations(opts, n, dups) ==
    IF n = 0 THEN {<<>>}
    ELSE UNION {{<<opts[choice_idx]>> \o rest :
                    rest \in Combinations(IF dups THEN opts ELSE Del(opts, choice_idx),
                                          n - 1, dups)} :
                choice_idx \in 1..Len(opts)}

\* s without the first occurrence of each element of drawn
RECURSIVE DelEach(_, _)
DelEach(s, drawn_elems) ==
    IF drawn_elems = <<>> THEN s
    ELSE LET first == CHOOSE i \in DOMAIN s :
                          s[i] = Head(drawn_elems) /\ \A j \in 1..(i - 1) : s[j] # s[i]
         IN  DelEach(Del(s, first), Tail(drawn_elems))

\* Mutant of generate_combination_options: the draws are deleted from the
\* caller's list, options = list(options) is left out
generate_combination_options_in_place(opts, g, dups) ==
    IF dups THEN opts ELSE DelEach(opts, g.elems)

\* the caller's options once generate_combination has returned g:
\* options = list(options) rebinds the name to a new list, and
\* del options[choice_idx] deletes from that one
generate_combination_options(opts, g, dups) == opts

generate_combination(opts, len, dups) ==
    IF generate_combination_raises(opts, len, dups) THEN {}
    ELSE {PyList(c) : c \in Combinations(opts, len, dups)}

-----------------------------------------------------------------------------
(* generate.py: the guessers *)

InMemoryPruner == "InMemoryPruner"
RandomGuessValidator == "RandomGuessValidator"

\* Mutant of CheckClues: guess_valid = valid_possibility(...), so that only
\* the newest clue decides
CheckCluesNewestOnly(cl, g, gv) ==
    IF cl = <<>> THEN gv
    ELSE valid_possibility(cl[Len(cl)][1], cl[Len(cl)][2], g)

\* Mutant of CheckClues: the loop starts at the second clue
RECURSIVE CheckCluesSkipFirst(_, _, _)
CheckCluesSkipFirst(cl, g, gv) ==
    IF Len(cl) <= 1 THEN gv
    ELSE /\ valid_possibility(cl[Len(cl)][1], cl[Len(cl)][2], g)
         /\ CheckCluesSkipFirst(SubSeq(cl, 1, Len(cl) - 1), g, gv)

\* for clue in clues: guess_valid = guess_valid and valid_possibility(...)
RECURSIVE CheckClues(_, _, _)
CheckClues(cl, g, gv) ==
    IF cl = <<>> THEN gv
    ELSE CheckClues(Tail(cl), g, gv /\ valid_possibility(Head(cl)[1], Head(cl)[2], g))

\* Mutant of Prune: the kept candidates come out in reverse order
PruneReversed(choices, g, res) ==
    LET kept == SelectSeq(choices, LAMBDA opt : valid_possibility(g, res, opt))
    IN  [i \in 1..Len(kept) |-> kept[Len(kept) + 1 - i]]

\* Mutant of Prune: the newest clue filters the full enumeration again
PruneFromAll(choices, g, res) ==
    SelectSeq(sorted(all_choices(options, length, duplicates)),
              LAMBDA opt : valid_possibility(g, res, opt))

\* Mutant of Prune: nothing is filtered out
PruneNothing(choices, g, res) == choices

\* the list comprehension of InMemoryPruner.add_clue
Prune(choices, g, res) ==
    SelectSeq(choices, LAMBDA opt : valid_possibility(g, res, opt))

\* Mutant of add_clue: the test for an empty candidate list is left out
add_clue_no_exit(clue) ==
    /\ clues' = Append(clues, clue)
    /\ pc' = "while"
    /\ IF strategy = InMemoryPruner
       THEN all_valid_choices' = Prune(all_valid_choices, clue[1], clue[2])
       ELSE UNCHANGED all_valid_choices

\* ValidSolutionGenerator.add_clue, and InMemoryPruner's override of it
add_clue(clue) ==
    /\ clues' = Append(clues, clue)
    /\ IF strategy = InMemoryPruner
       THEN /\ all_valid_choices' = Prune(all_valid_choices, clue[1], clue[2])
            /\ pc' = IF Len(all_valid_choices') = 0 THEN "exit_inconsistent" ELSE "while"
       ELSE /\ pc' = "while"
            /\ UNCHANGED all_valid_choices

\* Mutant of exhausted: count >= max_tries
exhausted_at_bound(mt, cnt) == mt # NoneInt /\ cnt >= mt[1]

\* max_tries is not None and count > max_tries
exhausted(mt, cnt) == mt # NoneInt /\ cnt > mt[1]

\* one iteration of the while loop of generate_random_valid_guess, drawing g
generate_random_valid_guess(g) ==
    LET valid == CheckClues(clues, g, TRUE)
        cnt == tries + 1
    IN  /\ guess_valid' = valid
        /\ tries' = cnt
        /\ drawn' = drawn + 1
        /\ first_valid' = IF first_valid = <<>> /\ (\A i \in DOMAIN clues :
                                  valid_possibility(clues[i][1], clues[i][2], g))
                          THEN <<drawn + 1, g>> ELSE first_valid
        /\ IF exhausted(max_tries, cnt) THEN /\ ret' = <<None, cnt>>
                             /\ pc' = "returned"
           ELSE IF valid THEN /\ ret' = <<g, cnt>>
                              /\ pc' = "returned"
           ELSE /\ tries < MaxDraws
                /\ UNCHANGED <<ret, pc>>

\* Mutant of CallRandomValidGuess: the argument is dropped and the bound of
\* the signature is in force
CallRandomValidGuessBounded(mt) ==
    /\ max_tries' = Int1(MaxTries)
    /\ tries' = 0
    /\ guess_valid' = FALSE
    /\ ret' = <<>>
    /\ drawn' = 0
    /\ first_valid' = <<>>

\* generate_random_valid_guess is entered with max_tries = mt
CallRandomValidGuess(mt) ==
    /\ max_tries' = mt
    /\ tries' = 0
    /\ guess_valid' = FALSE
    /\ ret' = <<>>
    /\ drawn' = 0
    /\ first_valid' = <<>>

-----------------------------------------------------------------------------
(* mastermind.py: iteratively_solve, with either guesser and honest clues *)

OptionLists == {[i \in 1..k |-> i] : k \in 1..NumSymbols}

\* The symbols of s are numbered in order of first occurrence.  The sampler
\* and the oracle read symbols only through = and through their position in
\* options, so a session of RandomGuessValidator for a solution is the
\* session for that solution with its symbols renamed: one solution of each
\* pattern stands for the others.  (InMemoryPruner sorts its candidates, so
\* its sessions are taken for every solution.)
FirstOccurrenceOrder(s) ==
    \A i \in DOMAIN s : \A v \in 1..(s[i] - 1) : \E j \in 1..(i - 1) : s[j] = v

Init ==
    /\ options \in OptionLists
    /\ length \in 1..MaxLength
    /\ duplicates \in BOOLEAN
    /\ strategy \in {InMemoryPruner, RandomGuessValidator}
    /\ solution \in generate_combination(options, length, duplicates)
    /\ strategy = RandomGuessValidator => FirstOccurrenceOrder(solution.elems)
    /\ clues = <<>>
    /\ all_valid_choices = IF strategy = InMemoryPruner
                           THEN sorted(all_choices(options, length, duplicates))
                           ELSE <<>>
    /\ max_tries = NoneInt
    /\ tries = 0
    /\ guess_valid = FALSE
    /\ ret = <<>>
    /\ guess = None
    /\ result = None
    /\ count = 0
    /\ pc = "while"
    /\ drawn = 0
    /\ first_valid = <<>>

\* while result != [GuessResult.EXACT_MATCH] * length: count += 1, generate()
While ==
    /\ pc = "while"
    /\ IF ~PyEq(result, PyList(Repeat(EXACT_MATCH, length)))
       THEN /\ count' = count + 1
            /\ IF strategy = RandomGuessValidator
               THEN /\ CallRandomValidGuess(NoneInt)
                    /\ pc' = "draw"
               ELSE /\ pc' = "generate"
                    /\ UNCHANGED <<max_tries, tries, guess_valid, ret, drawn, first_valid>>
       ELSE /\ pc' = "done"
            /\ UNCHANGED <<count, max_tries, tries, guess_valid, ret, drawn, first_valid>>
    /\ UNCHANGED <<options, length, duplicates, strategy, solution, clues,
                   all_valid_choices, guess, result>>

\* InMemoryPruner.generate
InMemoryPrunerGenerate ==
    /\ pc = "generate"
    /\ strategy = InMemoryPruner
    /\ IF Len(all_valid_choices) > 0
       THEN guess' = all_valid_choices[1] /\ pc' = "validate"
       ELSE guess' = guess /\ pc' = "IndexError"
    /\ UNCHANGED <<options, length, duplicates, strategy, solution, clues,
                   all_valid_choices, max_tries, tries,
                   guess_valid, ret, result, count, drawn, first_valid>>

\* generate_random_valid_guess: one draw and its check against the clues
Draw ==
    /\ pc = "draw"
    /\ \E g \in generate_combination(options, length, duplicates) :
           /\ generate_random_valid_guess(g)
           /\ options' = generate_combination_options(options, g, duplicates)
    /\ UNCHANGED <<length, duplicates, strategy, solution, clues,
                   all_valid_choices, max_tries, guess, result,
                   count>>

\* RandomGuessValidator.generate, once generate_random_valid_guess returned
\* (its locals end with the call; last_guess_count, which only stat_msg
\* reads, is not part of the model)
RandomGuessValidatorGenerate ==
    /\ pc = "returned"
    /\ IF ret[1] = None
       THEN guess' = guess /\ pc' = "exit_no_guess"
       ELSE guess' = ret[1] /\ pc' = "validate"
    /\ tries' = 0
    /\ guess_valid' = FALSE
    /\ ret' = <<>>
    /\ drawn' = 0
    /\ first_valid' = <<>>
    /\ UNCHANGED <<options, length, duplicates, strategy, solution, clues,
                   all_valid_choices, max_tries, result, count>>

\* result = mm.validate(guess)
Validate ==
    /\ pc = "validate"
    /\ result' = validate_solution(solution, guess)
    /\ solution' = validate_solution_arguments(solution, guess)[1]
    /\ guess' = validate_solution_arguments(solution, guess)[2]
    /\ pc' = "add_clue"
    /\ UNCHANGED <<options, length, duplicates, strategy, clues,
                   all_valid_choices, max_tries, tries,
                   guess_valid, ret, count, drawn, first_valid>>

\* guesser.add_clue((guess, result))
AddClue ==
    /\ pc = "add_clue"
    /\ add_clue(<<guess, result>>)
    /\ UNCHANGED <<options, length, duplicates, strategy, solution, max_tries,
                   tries, guess_valid, ret, guess, result, count, drawn,
                   first_valid>>

Next ==
    \/ While
    \/ InMemoryPrunerGenerate
    \/ Draw
    \/ RandomGuessValidatorGenerate
    \/ Validate
    \/ AddClue

Spec == Init /\ [][Next]_vars

-----------------------------------------------------------------------------
(* The same session under the scheduling the claims of termination assume:  *)
(* the loop keeps running, and the random draw is fair to the solution.     *)

DrawSolution ==
    /\ pc = "draw"
    /\ generate_random_valid_guess(solution)
    /\ options' = generate_combination_options(options, solution, duplicates)
    /\ UNCHANGED <<length, duplicates, strategy, solution, clues,
                   all_valid_choices, max_tries, guess, result, count>>

\* every step of the session but a draw that is rejected
Progress ==
    \/ While
    \/ InMemoryPrunerGenerate
    \/ RandomGuessValidatorGenerate
    \/ Validate
    \/ AddClue
    \/ DrawSolution

FairSpec == Spec /\ WF_vars(Progress)

-----------------------------------------------------------------------------
(* The oracle and the consistency checker applied to any two sequences of   *)
(* the same length                                                          *)

MaxSeqLen == 4

SeqsOfLen(S, n) == [1..n -> S]

OracleInputs ==
    UNION {SeqsOfLen(Symbols, n) \X SeqsOfLen(Symbols, n) : n \in 1..MaxSeqLen}

InitOracle ==
    /\ \E in \in OracleInputs, ks \in {"list", "tuple"}, kg \in {"list", "tuple"} :
           /\ solution = [kind |-> ks, elems |-> in[1]]
           /\ guess = [kind |-> kg, elems |-> in[2]]
    /\ options = <<>>
    /\ length = Len(solution.elems)
    /\ duplicates = TRUE
    /\ strategy = ""
    /\ clues = <<>>
    /\ all_valid_choices = <<>>
    /\ max_tries = NoneInt
    /\ tries = 0
    /\ guess_valid = FALSE
    /\ ret = <<>>
    /\ result = None
    /\ count = 0
    /\ pc = "validate"
    /\ drawn = 0
    /\ first_valid = <<>>

\* valid_possibility(guess, result, solution) for the clue just computed
ValidPossibility ==
    /\ pc = "add_clue"
    /\ guess_valid' = valid_possibility(guess, result, solution)
    /\ pc' = "checked"
    /\ UNCHANGED <<options, length, duplicates, strategy, solution, clues,
                   all_valid_choices, max_tries, tries, ret, guess, result, count,
                   drawn, first_valid>>

NextOracle == Validate \/ ValidPossibility

SpecOracle == InitOracle /\ [][NextOracle]_vars

-----------------------------------------------------------------------------
(* generate_random_valid_guess called with any max_tries and the honest     *)
(* clues of up to two earlier guesses, which need not be consistent guesses *)
(* (manual_input records whatever guess was played).  The histories are    *)
(* taken for one solution of each pattern, as in Init.                      *)

ClueCounts == {0, 1, 2}

HonestClues(sol, gs) == [i \in DOMAIN gs |-> <<gs[i], validate_solution(sol, gs[i])>>]

Histories(opts, len, dups) ==
    LET space == generate_combination(opts, len, dups)
    IN  {HonestClues(sol, gs) :
            sol \in {c \in space : FirstOccurrenceOrder(c.elems)},
            gs \in UNION {SeqsOfLen(space, n) : n \in ClueCounts}}

InitGuess ==
    /\ options \in OptionLists
    /\ length \in 1..MaxLength
    /\ duplicates \in BOOLEAN
    /\ strategy = RandomGuessValidator
    /\ solution = None
    /\ clues \in Histories(options, length, duplicates)
    /\ all_valid_choices = <<>>
    /\ max_tries \in {NoneInt} \cup {Int1(n) : n \in 0..MaxTries}
    /\ tries = 0
    /\ guess_valid = FALSE
    /\ ret = <<>>
    /\ guess = None
    /\ result = None
    /\ count = 0
    /\ pc = "draw"
    /\ drawn = 0
    /\ first_valid = <<>>

NextGuess == Draw

SpecGuess == InitGuess /\ [][NextGuess]_vars

-----------------------------------------------------------------------------
(* The session of InMemoryPruner when the clues need not be honest: the     *)
(* result of a round is any list of outcomes                                *)

ResultSpace(len) == {PyList(r) : r \in UNION {SeqsOfLen(GuessResult, n) : n \in 0..len}}

InitPruner ==
    /\ options \in OptionLists
    /\ length \in 1..MaxLength
    /\ duplicates \in BOOLEAN
    /\ ~generate_combination_raises(options, length, duplicates)
    /\ strategy = InMemoryPruner
    /\ solution = None
    /\ clues = <<>>
    /\ all_valid_choices = sorted(all_choices(options, length, duplicates))
    /\ max_tries = NoneInt
    /\ tries = 0
    /\ guess_valid = FALSE
    /\ ret = <<>>
    /\ guess = None
    /\ result = None
    /\ count = 0
    /\ pc = "while"
    /\ drawn = 0
    /\ first_valid = <<>>

\* the result of the round is whatever the caller reports
AnyResult ==
    /\ pc = "validate"
    /\ result' \in ResultSpace(length)
    /\ pc' = "add_clue"
    /\ UNCHANGED <<options, length, duplicates, strategy, solution, clues,
                   all_valid_choices, max_tries, tries, guess_valid, ret, guess,
                   count, drawn, first_valid>>

NextPruner == While \/ InMemoryPrunerGenerate \/ AnyResult \/ AddClue

SpecPruner == InitPruner /\ [][NextPruner]_vars

-----------------------------------------------------------------------------
(* Properties *)

AllExact(len) == PyList(Repeat(EXACT_MATCH, len))

Space == all_choices(options, length, duplicates)

Consistent(clue, g) == valid_possibility(clue[1], clue[2], g)

\* a is b with some elements left out, the others in b's order
RECURSIVE IsSubList(_, _)
IsSubList(a, b) ==
    IF a = <<>> THEN TRUE
    ELSE IF b = <<>> THEN FALSE
    ELSE IF Head(a) = Head(b) THEN IsSubList(Tail(a), Tail(b))
    ELSE IsSubList(a, Tail(b))

\* C1: whenever the solving loop exits, the last guess equals the solution
\* position by position; the oracle answers length EXACT_MATCH outcomes only
\* for a guess identical to the solution.
C1_LoopExitsOnSolution ==
    /\ pc = "done" => guess.elems = solution.elems
    /\ (pc \in {"add_clue", "while", "done"} /\ PyEq(result, AllExact(length)))
           => guess.elems = solution.elems

C1_Witness ==
    /\ pc = "done"
    /\ strategy = InMemoryPruner
    /\ count >= 3
    /\ guess.kind = "tuple" /\ solution.kind = "list"

\* C2: with InMemoryPruner and honest clues the session reaches the
\* all-EXACT_MATCH clue; a round whose guess is not the solution removes that
\* guess from all_valid_choices, and the number of rounds never exceeds the
\* number of candidates enumerated at construction.
C2_PrunerTerminates ==
    /\ (strategy = InMemoryPruner) => <>(pc = "done")
    /\ [](strategy = InMemoryPruner => count <= Cardinality(Space))
    /\ [][(pc = "add_clue" /\ strategy = InMemoryPruner
              /\ guess.elems # solution.elems)
            => \A i \in DOMAIN all_valid_choices' : all_valid_choices'[i] # guess]_vars

C2_Witness ==
    /\ strategy = InMemoryPruner
    /\ pc = "done"
    /\ count = 3
    /\ Len(all_valid_choices) = 1

\* C3: with RandomGuessValidator (max_tries = None), honest clues and a draw
\* that is fair to the solution, the session reaches the all-EXACT_MATCH clue
\* (so every call of generate before it returned, and none with the failure
\* value); a guess already answered is never proposed again.
C3_RandomTerminates ==
    /\ (strategy = RandomGuessValidator) => <>(pc = "done")
    /\ [](pc = "returned" => ret[1] # None)
    /\ []((strategy = RandomGuessValidator /\ pc = "validate")
             => \A i \in DOMAIN clues : clues[i][1] # guess)

C3_Witness ==
    /\ strategy = RandomGuessValidator
    /\ pc = "done"
    /\ Len(clues) = 3

\* C4: under honest play the solution is a candidate of InMemoryPruner after
\* every add_clue: the list is never empty and the 'Logical inconsistency'
\* exit is never taken.
C4_SolutionStaysCandidate ==
    strategy = InMemoryPruner =>
        /\ \E i \in DOMAIN all_valid_choices :
               all_valid_choices[i].elems = solution.elems
        /\ pc # "exit_inconsistent"
        /\ pc # "IndexError"

C4_Witness ==
    /\ strategy = InMemoryPruner
    /\ pc = "while"
    /\ Len(clues) = 2
    /\ Len(all_valid_choices) = 1
    /\ all_valid_choices[1].elems = solution.elems
    /\ guess.elems # solution.elems

\* C5: whatever clues are added to InMemoryPruner, every add_clue leaves a
\* sub-list of the candidate list it found (no longer, nothing excluded comes
\* back) and appends exactly one entry to the clue history, which no step
\* shortens or resets.
C5_PruningOnlyShrinks ==
    [][/\ IsSubList(all_valid_choices', all_valid_choices)
       /\ IF pc = "add_clue"
          THEN clues' = Append(clues, <<guess, result>>)
          ELSE clues' = clues]_vars

C5_Witness ==
    /\ pc = "while"
    /\ Len(clues) = 2
    /\ Len(all_valid_choices) = 1
    /\ Cardinality(Space) = 4
    /\ \E i \in DOMAIN clues[1][2].elems : clues[1][2].elems[i] = EXACT_MATCH

\* C6: for a solution and a guess of the same length validate_solution
\* returns e EXACT_MATCH then c ONLY_COLOR_CORRECT, e the number of positions
\* holding equal values and c the number of distinct values found in both
\* residuals once those positions are left out; no other outcome appears.
\* [red, white, white, white] against [purple, purple, white, yellow] gives
\* [EXACT_MATCH].
ExactPositions(sol, gs) == {i \in 1..Len(gs) : gs[i] = sol[i]}

SharedResidualValues(sol, gs) ==
    {v \in Symbols :
        /\ \E i \in (1..Len(sol)) \ ExactPositions(sol, gs) : sol[i] = v
        /\ \E i \in (1..Len(gs)) \ ExactPositions(sol, gs) : gs[i] = v}

C6_OracleCounts ==
    /\ pc # "validate" =>
          LET e == Cardinality(ExactPositions(solution.elems, guess.elems))
              c == Cardinality(SharedResidualValues(solution.elems, guess.elems))
          IN  /\ result.kind = "list"
              /\ Len(result.elems) = e + c
              /\ \A i \in 1..(e + c) :
                     result.elems[i] = IF i <= e THEN EXACT_MATCH
                                       ELSE ONLY_COLOR_CORRECT
    /\ validate_solution(PyList(<<1, 2, 2, 2>>), PyList(<<3, 3, 2, 4>>))
           = PyList(<<EXACT_MATCH>>)

\* a value shared twice over counts once
C6_Witness ==
    /\ pc = "add_clue"
    /\ solution.elems = <<1, 1, 2, 2>>
    /\ guess.elems = <<2, 2, 1, 1>>
    /\ result = PyList(<<ONLY_COLOR_CORRECT, ONLY_COLOR_CORRECT>>)

\* C7: validate_solution(s, s) is len(s) EXACT_MATCH outcomes and nothing
\* else, also when the two arguments are a list and a tuple of the same
\* elements and the == short-circuit is not taken.
C7_SelfIsAllExact ==
    (pc # "validate" /\ solution.elems = guess.elems)
        => result = AllExact(Len(solution.elems))

C7_Witness ==
    /\ pc = "add_clue"
    /\ solution.kind = "list" /\ guess.kind = "tuple"
    /\ ~PyEq(solution, guess)
    /\ solution.elems = guess.elems
    /\ solution.elems = <<1, 2, 2, 1>>
    /\ result = AllExact(4)

\* C8: valid_possibility(g, validate_solution(solution, g), solution) is true
\* for every solution and guess g of the same length.
C8_SolutionIsConsistent == pc = "checked" => guess_valid

C8_Witness ==
    /\ pc = "checked"
    /\ guess_valid
    /\ solution.elems = <<1, 2, 1>>
    /\ guess.elems = <<1, 1, 2>>
    /\ result = PyList(<<EXACT_MATCH, ONLY_COLOR_CORRECT, ONLY_COLOR_CORRECT>>)

\* C9: a guess returned by generate_random_valid_guess (not the failure
\* value None) is consistent with every clue of the history and is the first
\* consistent draw of the call; the count returned is the number of draws of
\* the call.
C9_ReturnsFirstConsistentDraw ==
    pc = "returned" =>
        /\ ret[2] = drawn
        /\ ret[1] # None =>
              /\ \A i \in DOMAIN clues : Consistent(clues[i], ret[1])
              /\ first_valid = <<drawn, ret[1]>>

\* two draws; the first one fits the newest clue but not the older one
C9_Witness ==
    /\ pc = "returned"
    /\ ret[1] # None
    /\ ret[2] = 2
    /\ Len(clues) = 2
    /\ \E g \in generate_combination(options, length, duplicates) :
           Consistent(clues[2], g) /\ ~Consistent(clues[1], g)

\* C10: with max_tries = n, generate_random_valid_guess returns None exactly
\* when none of its first n draws is consistent with the clues, and returns
\* the first consistent draw otherwise.
C10_FailsExactlyWhenExhausted ==
    (pc = "returned" /\ max_tries # NoneInt) =>
        LET found == first_valid # <<>> /\ first_valid[1] <= max_tries[1]
        IN  /\ ret[1] = None <=> ~found
            /\ found => ret[1] = first_valid[2]

\* found by the last draw the bound allows
C10_Witness ==
    /\ pc = "returned"
    /\ max_tries = Int1(1)
    /\ clues # <<>>
    /\ ret[1] # None
    /\ ret[2] = 1
    /\ first_valid = <<1, ret[1]>>

\* C11: with max_tries = 0 and a non-empty clue history,
\* generate_random_valid_guess reports failure (None) in every case except
\* when its first draw is already consistent with all clues, and then that
\* first draw is returned.
C11_ZeroTriesKeepsFirstDraw ==
    (pc = "returned" /\ max_tries = Int1(0) /\ clues # <<>>) =>
        LET lucky == first_valid # <<>> /\ first_valid[1] = 1
        IN  /\ ret[1] = None <=> ~lucky
            /\ lucky => ret[1] = first_valid[2]

-----------------------------------------------------------------------------
(* Construction of a guesser and its first generate(), for every            *)
(* configuration: the options may repeat a value, and may be fewer than     *)
(* length when duplicates is off                                            *)

MaxOptions == 3

OptionSeqs == UNION {SeqsOfLen(Symbols, k) : k \in 1..MaxOptions}

InitConstruct ==
    /\ options \in OptionSeqs
    /\ length \in 1..MaxLength
    /\ duplicates \in BOOLEAN
    /\ strategy \in {InMemoryPruner, RandomGuessValidator}
    /\ solution = None
    /\ clues = <<>>
    /\ all_valid_choices = <<>>
    /\ max_tries = NoneInt
    /\ tries = 0
    /\ guess_valid = FALSE
    /\ ret = <<>>
    /\ guess = None
    /\ result = None
    /\ count = 0
    /\ pc = "construct"
    /\ drawn = 0
    /\ first_valid = <<>>

\* InMemoryPruner.__init__ enumerates and sorts; RandomGuessValidator.__init__
\* only stores its arguments
Construct ==
    /\ pc = "construct"
    /\ all_valid_choices' = IF strategy = InMemoryPruner
                            THEN sorted(all_choices(options, length, duplicates))
                            ELSE all_valid_choices
    /\ pc' = "while"
    /\ UNCHANGED <<options, length, duplicates, strategy, solution, clues,
                   max_tries, tries, guess_valid, ret, guess, result, count,
                   drawn, first_valid>>

\* generate_combination raises; nothing between it and the caller of
\* generate() catches the exception
DrawRaises ==
    /\ pc = "draw"
    /\ generate_combination_raises(options, length, duplicates)
    /\ pc' = "Exception"
    /\ UNCHANGED <<options, length, duplicates, strategy, solution, clues,
                   all_valid_choices, max_tries, tries, guess_valid, ret, guess,
                   result, count, drawn, first_valid>>

NextConstruct ==
    \/ Construct
    \/ While
    \/ InMemoryPrunerGenerate
    \/ Draw
    \/ DrawRaises
    \/ RandomGuessValidatorGenerate

SpecConstruct == InitConstruct /\ [][NextConstruct]_vars

Values(s) == {s[i] : i \in DOMAIN s}

CountIn(s, v) == Cardinality({i \in DOMAIN s : s[i] = v})

Distinct(s) == \A i, j \in DOMAIN s : i # j => s[i] # s[j]

\* the ordered arrangements of len symbols of opts: any symbol at any place
\* with duplicates, no symbol more often than opts holds it without
Arrangements(opts, len, dups) ==
    {t \in [1..len -> Values(opts)] :
        dups \/ \A v \in Values(opts) : CountIn(t, v) <= CountIn(opts, v)}

RECURSIVE Power(_, _)
Power(b, e) == IF e = 0 THEN 1 ELSE b * Power(b, e - 1)

\* n (n-1) ... (n-k+1)
RECURSIVE FallingFactorial(_, _)
FallingFactorial(n, k) == IF k = 0 THEN 1 ELSE n * FallingFactorial(n - 1, k - 1)

\* C12: all_choices returns exactly the distinct ordered arrangements of
\* length symbols of options.  For distinct options these are |options|^length
\* with duplicates and |options| (|options|-1) ... (|options|-length+1)
\* without, and then no arrangement repeats a symbol.  Repeated values in
\* options add no arrangement twice: the sorted candidate list holds each one
\* once.  Every sequence generate_combination can draw is one of them.
C12_AllChoicesIsTheSpace ==
    LET S == all_choices(options, length, duplicates)
        n == Len(options)
    IN  /\ {c.elems : c \in S} = Arrangements(options, length, duplicates)
        /\ \A c \in S : c = PyTuple(c.elems)
        /\ Distinct(options) =>
               /\ Cardinality(S) = IF duplicates THEN Power(n, length)
                                   ELSE FallingFactorial(n, length)
               /\ ~duplicates => \A c \in S : Distinct(c.elems)
        /\ (strategy = InMemoryPruner /\ pc # "construct") =>
               /\ Values(all_valid_choices) = S
               /\ Distinct(all_valid_choices)
        /\ \A g \in generate_combination(options, length, duplicates) :
               PyTuple(g.elems) \in S
        /\ (strategy = RandomGuessValidator /\ pc = "validate") =>
               PyTuple(guess.elems) \in S

\* options repeat a value and duplicates is off: three arrangements of two
C12_Witness ==
    /\ options = <<1, 1, 2>>
    /\ length = 2
    /\ ~duplicates
    /\ strategy = InMemoryPruner
    /\ pc = "validate"
    /\ Len(all_valid_choices) = 3
    /\ guess = PyTuple(<<1, 1>>)

\* C13: with duplicates off and fewer options than length, the configuration
\* error shows at once: generate_combination raises without drawing, and a
\* guesser is never constructed for such a configuration (construction
\* fails), so that no engine exists that could fail later.
C13_BadConfigFailsAtConstruction ==
    generate_combination_raises(options, length, duplicates) =>
        /\ generate_combination(options, length, duplicates) = {}
        /\ pc \in {"construct", "ConfigurationError"}

\* no remaining candidate of InMemoryPruner fits the clue of this round
NoCandidateLeft ==
    \A i \in DOMAIN all_valid_choices :
        ~Consistent(<<guess, result>>, all_valid_choices[i])

\* C14: when an add_clue of InMemoryPruner leaves no candidate consistent
\* with the newest clue, that same step ends the session in the error state
\* of the logical inconsistency, and only then; from that state nothing
\* happens any more, so generate() is never asked for a guess of an empty
\* candidate list.
C14_InconsistencyEndsSession ==
    [][/\ (pc = "add_clue" /\ strategy = InMemoryPruner) =>
              /\ pc' = IF NoCandidateLeft THEN "exit_inconsistent" ELSE "while"
              /\ NoCandidateLeft <=> all_valid_choices' = <<>>
       /\ pc # "exit_inconsistent"
       /\ pc' # "IndexError"
       /\ pc = "generate" => all_valid_choices # <<>> /\ guess' = all_valid_choices[1]]_vars

\* a clue no candidate fits has ended the session at its second round
C14_Witness ==
    /\ pc = "exit_inconsistent"
    /\ strategy = InMemoryPruner
    /\ Len(clues) = 2
    /\ all_valid_choices = <<>>
    /\ \E c \in Space : Consistent(clues[1], c)

-----------------------------------------------------------------------------
(* validate_solution called with sequences of different lengths, and        *)
(* valid_possibility called with a clue that has more entries than the      *)
(* guess it belongs to                                                      *)

MismatchedInputs ==
    UNION {SeqsOfLen(Symbols, n) \X SeqsOfLen(Symbols, m) :
              <<n, m>> \in {p \in (1..MaxSeqLen) \X (1..MaxSeqLen) : p[1] # p[2]}}

InitMismatch ==
    /\ \E in \in MismatchedInputs :
           /\ solution = PyList(in[1])
           /\ guess = PyList(in[2])
    /\ options = <<>>
    /\ length = Len(solution.elems)
    /\ duplicates = TRUE
    /\ strategy = ""
    /\ clues = <<>>
    /\ all_valid_choices = <<>>
    /\ max_tries = NoneInt
    /\ tries = 0
    /\ guess_valid = FALSE
    /\ ret = <<>>
    /\ result = None
    /\ count = 0
    /\ pc = "validate"
    /\ drawn = 0
    /\ first_valid = <<>>

\* valid_possibility(guess, r, guess) for a clue r of len(guess) + 1 outcomes
ValidPossibilityLongClue ==
    /\ pc = "add_clue"
    /\ \E x \in GuessResult :
           /\ result' = PyList(Repeat(x, Len(guess.elems) + 1))
           /\ guess_valid' = valid_possibility(guess, result', guess)
    /\ pc' = "checked"
    /\ UNCHANGED <<options, length, duplicates, strategy, solution, clues,
                   all_valid_choices, max_tries, tries, ret, guess, count,
                   drawn, first_valid>>

NextMismatch == Validate \/ ValidPossibilityLongClue

SpecMismatch == InitMismatch /\ [][NextMismatch]_vars

\* C15: validate_solution called with a solution and a guess of different
\* lengths does not return a clue, and valid_possibility called with a clue
\* longer than the sequence does not return a boolean: either call ends in an
\* error.
C15_LengthMismatchIsError ==
    /\ (Len(solution.elems) # Len(guess.elems) /\ pc # "validate") =>
           pc = "Exception" /\ result = None
    /\ (result # None /\ Len(result.elems) > Len(guess.elems)) =>
           pc = "Exception"

\* a clue of three outcomes for a guess of two was answered with False
C15_Witness ==
    /\ pc = "checked"
    /\ Len(guess.elems) = 2
    /\ Len(result.elems) = 3
    /\ guess_valid = FALSE

\* the least tuple of a non-empty set of candidates
LeastOf(S) == CHOOSE x \in S : \A y \in S : x = y \/ LexLess(x.elems, y.elems)

\* the clues of the first n rounds of a session that always plays the least
\* candidate of S consistent with every clue so far
RECURSIVE LeastFirstPlay(_, _)
LeastFirstPlay(S, n) ==
    IF n = 0 \/ S = {} THEN <<>>
    ELSE LET g == LeastOf(S)
             r == validate_solution(solution, g)
         IN  <<<<g, r>>>> \o LeastFirstPlay({c \in S : valid_possibility(g, r, c)}, n - 1)

\* C16: the play of InMemoryPruner is deterministic.  Its candidate list is
\* always in ascending order, generate() returns its least element and
\* changes nothing of the engine (a second call would return the same
\* guess), and the guesses and clues of a session are a function of the
\* configuration and the solution: the least-first play of the space.
C16_PrunerIsDeterministic ==
    /\ [](strategy = InMemoryPruner =>
            /\ \A i, j \in DOMAIN all_valid_choices :
                   i < j => LexLess(all_valid_choices[i].elems, all_valid_choices[j].elems)
            /\ pc \in {"validate", "add_clue"} =>
                   /\ \E i \in DOMAIN all_valid_choices : all_valid_choices[i] = guess
                   /\ \A i \in DOMAIN all_valid_choices :
                          guess = all_valid_choices[i]
                              \/ LexLess(guess.elems, all_valid_choices[i].elems)
            /\ clues = LeastFirstPlay(Space, Len(clues)))
    /\ [][pc = "generate" =>
              /\ UNCHANGED <<options, length, duplicates, solution, clues,
                             all_valid_choices>>
              /\ guess' = all_valid_choices'[1]]_vars

\* the second guess of a session, after a first clue that kept more than
\* one candidate
C16_Witness ==
    /\ strategy = InMemoryPruner
    /\ pc = "validate"
    /\ Len(clues) = 1
    /\ Len(all_valid_choices) > 1
    /\ guess # clues[1][1]

\* C17: the oracle is symmetric in its two arguments of equal length:
\* validate_solution(a, b) = validate_solution(b, a), so that the clue
\* computed for (solution, guess) is the clue of (guess, solution), and
\* valid_possibility gives the same answer with guess and candidate swapped.
C17_OracleIsSymmetric ==
    /\ pc = "add_clue" => result = validate_solution(guess, solution)
    /\ pc = "checked" => guess_valid = valid_possibility(solution, result, guess)

\* a clue with an exact match and colour matches, for sequences that are not
\* each other's reverse
C17_Witness ==
    /\ pc = "add_clue"
    /\ solution = PyList(<<1, 1, 2, 2>>)
    /\ guess = PyTuple(<<1, 2, 1, 1>>)
    /\ result = PyList(<<EXACT_MATCH, ONLY_COLOR_CORRECT, ONLY_COLOR_CORRECT>>)

\* C18: after any sequence of add_clue calls the candidate list of
\* InMemoryPruner holds exactly the sequences of the initial enumeration that
\* are consistent with every clue in clues, each once; it is the set of the
\* draws that generate_random_valid_guess accepts for the same clues.
C18_CandidatesAreTheConsistentSet ==
    strategy = InMemoryPruner =>
        LET fitting == {c \in Space : \A i \in DOMAIN clues : Consistent(clues[i], c)}
            accepted == {g \in generate_combination(options, length, duplicates) :
                            CheckClues(clues, g, TRUE)}
        IN  /\ Values(all_valid_choices) = fitting
            /\ Distinct(all_valid_choices)
            /\ {g.elems : g \in accepted} = {c.elems : c \in fitting}

\* two clues that each removed candidates and left one
C18_Witness ==
    /\ strategy = InMemoryPruner
    /\ pc = "while"
    /\ Len(clues) = 2
    /\ Len(all_valid_choices) = 1
    /\ Cardinality({c \in Space : Consistent(clues[1], c)}) = 2
    /\ Cardinality(Space) = 4

\* C19: no operation of a session changes the solution or the configuration
\* of the guesser (options, length, duplicates): validate_solution leaves
\* both of its arguments as they were, generate_combination leaves the
\* caller's options as they were also when duplicates is off, and generate
\* and add_clue touch none of them.
C19_SolutionAndConfigurationAreKept ==
    [][/\ UNCHANGED <<solution, options, length, duplicates>>
       /\ pc = "validate" => guess' = guess]_vars

\* a draw without duplicates has been made and its guess validated
C19_Witness ==
    /\ strategy = RandomGuessValidator
    /\ ~duplicates
    /\ pc = "add_clue"
    /\ Len(options) = 2
    /\ length = 2
    /\ result = PyList(<<ONLY_COLOR_CORRECT, ONLY_COLOR_CORRECT>>)

-----------------------------------------------------------------------------
(* RandomGuessValidator.generate in manual_input, where the guess played    *)
(* and the result reported are whatever was typed.  The histories: no clue; *)
(* one clue with any result; two clues, each the honest result of its guess *)
(* for some solution, not necessarily the same one.  The first guess is     *)
(* taken once for each pattern of symbols, as in Init.                      *)

\* the results the oracle can give for guess g
HonestResults(space, g) == {validate_solution(c, g) : c \in space}

ManualHistories(opts, len, dups) ==
    LET space == generate_combination(opts, len, dups)
        first == {g \in space : FirstOccurrenceOrder(g.elems)}
    IN  {<<>>}
        \cup {<<<<g, r>>>> : g \in first, r \in ResultSpace(len)}
        \cup UNION {{<<<<g1, r1>>, <<g2, r2>>>> :
                        r1 \in HonestResults(space, g1) \ {PyList(Repeat(EXACT_MATCH, len))},
                        r2 \in HonestResults(space, g2)} :
                    g1 \in first, g2 \in space}

InitManual ==
    /\ options \in OptionLists
    /\ length \in 1..MaxLength
    /\ duplicates \in BOOLEAN
    /\ ~generate_combination_raises(options, length, duplicates)
    /\ strategy = RandomGuessValidator
    /\ solution = None
    /\ clues \in ManualHistories(options, length, duplicates)
    /\ all_valid_choices = <<>>
    /\ max_tries = NoneInt
    /\ tries = 0
    /\ guess_valid = FALSE
    /\ ret = <<>>
    /\ guess = IF clues = <<>> THEN None ELSE clues[Len(clues)][1]
    /\ result = IF clues = <<>> THEN None ELSE clues[Len(clues)][2]
    /\ count = Len(clues)
    /\ pc = "while"
    /\ drawn = 0
    /\ first_valid = <<>>

NextManual == While \/ Draw \/ RandomGuessValidatorGenerate

SpecManual == InitManual /\ [][NextManual]_vars

\* no sequence of the configured space fits every clue
NothingFits ==
    \A g \in generate_combination(options, length, duplicates) :
        \E i \in DOMAIN clues : ~Consistent(clues[i], g)

\* C20: RandomGuessValidator.generate always calls the draw loop without a
\* bound, so the loop never returns None and "Couldn't find valid guess" is
\* never reached; when no sequence of the space fits the clues, the loop
\* once entered is never left: generate neither returns nor reports an error.
C20_GenerateNeverGivesUp ==
    /\ [](/\ pc # "exit_no_guess"
          /\ pc \in {"draw", "returned"} => max_tries = NoneInt
          /\ pc = "returned" => ret[1] # None
          /\ pc \in {"returned", "validate"} => ~NothingFits)
    /\ [][(pc = "draw" /\ pc' # "draw") => ~NothingFits]_vars

\* a clue with an INCORRECT outcome: draws are rejected one after another
C20_Witness ==
    /\ pc = "draw"
    /\ NothingFits
    /\ tries = MaxDraws
    /\ Len(clues) = 1
    /\ \E i \in DOMAIN clues[1][2].elems : clues[1][2].elems[i] = INCORRECT

\* two clues that are honest each for itself, and contradict each other
C20_ContradictionWitness ==
    /\ pc = "draw"
    /\ NothingFits
    /\ tries = MaxDraws
    /\ Len(clues) = 2

====
